---- MODULE Spec2Model ----
(***************************************************************************)
(* Model of vapor/api_interface.py: get_steam_user_data and the batch it   *)
(* drives (_parse_steam_user_games, _fetch_single_game_rating,             *)
(* get_game_average_rating, check_game_is_native, resolve_vanity_name).    *)
(*                                                                         *)
(* The program is single-threaded asyncio code: an action of the model is  *)
(* the code one coroutine runs between two suspension points (a network    *)
(* request in flight, a caller-supplied callback in progress, a wait on    *)
(* the semaphore, the wait of as_completed for the next finished task).    *)
(* Remote responses, the cache found on disk and the arguments of the call *)
(* are the inputs; they are drawn from the small sets defined below.       *)
(***************************************************************************)
EXTENDS Integers, Sequences, FiniteSets, TLC

VARIABLES
    pc,            \* position of get_steam_user_data / _parse_steam_user_games
    outcome,       \* what the call gave its caller: "none", "LibraryResult" or the exception raised
    user_id,       \* the user_id argument, rebound at line 220
    callbacks,     \* which of on_games_loaded / on_game_updated are not None
    cache,         \* the Cache loaded at line 226 ("unloaded" before)
    data,          \* the payload handed to _parse_steam_user_games ("none" before)
    games,         \* data['response']['games'] (line 301)
    game_ratings,  \* the local game_ratings: the snapshot list, then the final list
    sem_value,     \* asyncio.Semaphore._value of the semaphore of line 322
    sem_waiters,   \* asyncio.Semaphore._waiters, FIFO, as task indices
    tpc,           \* position of each _fetch_single_game_rating task (index into games)
    completed,     \* the queue of as_completed: finished tasks not yet yielded, oldest first
    nconsumed,     \* how many results the loop of line 332 has taken
    ratings_map,   \* the dict ratings_map of line 323
    result,        \* the SteamUserData returned ("none" before)
    \* what instrumented collaborators observe
    native_calls,  \* per task, native-check requests issued
    tier_calls,    \* per task, tier-lookup requests issued
    failed,        \* per task, whether an exception reached the except clause of line 263
    produced,      \* per task, the rating of the Game it returned ("none" before)
    loaded_log,    \* the lists on_games_loaded was called with
    loaded_done,   \* whether the call of on_games_loaded has returned
    updated_log,   \* the Games on_game_updated was called with, in call order
    cache_commits, \* the game_list arguments of cache.update_cache, in call order
    requests,      \* the batch-level requests answered so far, with what each gave
    \* get_anti_cheat_data
    ac_pc,         \* position of get_anti_cheat_data
    ac_cache,      \* the Cache loaded at line 100 (stale and empty before)
    ac_data,       \* the response of line 104 (none before)
    ac_result,     \* what the call gave its caller: "none", "cache", "None" or the exception raised
    ac_commits     \* the anti_cheat_list arguments of cache.update_cache, in call order

vars == <<pc, outcome, user_id, callbacks, cache, data, games, game_ratings,
          sem_value, sem_waiters, tpc, completed, nconsumed, ratings_map, result,
          native_calls, tier_calls, failed, produced, loaded_log, loaded_done,
          updated_log, cache_commits, requests,
          ac_pc, ac_cache, ac_data, ac_result, ac_commits>>

(***************************************************************************)
(* Bounds of the model.                                                    *)
(***************************************************************************)
\* longest games list of an owned-games response in Spec
MaxGames == 2
\* largest playtime_forever in Spec (playtimes are 1..MaxPlaytime)
MaxPlaytime == 2
\* most identifiers the cache on disk holds
MaxCached == 1
\* games beyond the semaphore's capacity in the batch of SpecGate
GateExtra == 4
\* longest games list of a batch in SpecAvg
MaxAvgGames == 3
\* longest list of records in the payload of the anti-cheat source
MaxRecords == 2

(***************************************************************************)
(* Program constants.                                                      *)
(***************************************************************************)
MAX_CONCURRENT_REQUESTS == 20

HTTP_SUCCESS == "HTTP_SUCCESS"
HTTP_BAD_REQUEST == "HTTP_BAD_REQUEST"
HTTP_UNAUTHORIZED == "HTTP_UNAUTHORIZED"
HTTP_FORBIDDEN == "HTTP_FORBIDDEN"
HTTP_SERVER_ERROR == "HTTP_SERVER_ERROR"

STEAM_USER_ID_LENGTH == 17

\* RATING_DICT as (key, rank) pairs in enumeration order
RATING_DICT ==
    << <<"borked", 1>>, <<"bronze", 2>>, <<"silver", 3>>, <<"gold", 4>>,
       <<"platinum", 5>>, <<"native", 5>>, <<"pending", 0>> >>

RatingKeys == {RATING_DICT[i][1] : i \in DOMAIN RATING_DICT}

(***************************************************************************)
(* Inputs: the arguments of the call, the cache on disk, the responses.    *)
(***************************************************************************)
\* a user_id argument, by the two things line 218 reads of it
UserIds ==
    { [len |-> STEAM_USER_ID_LENGTH, prefix |-> TRUE, resolved |-> FALSE],
      [len |-> 5, prefix |-> FALSE, resolved |-> FALSE] }

\* the steamid a successful name resolution returns (line 191)
ResolvedSteamId == [len |-> STEAM_USER_ID_LENGTH, prefix |-> TRUE, resolved |-> TRUE]

\* an HTTP exchange that produced no response: async_get raises
TransportError == [status |-> "none", body |-> "transport_error"]

\* responses to the ResolveVanityURL request
VanityResponses ==
    { [status |-> HTTP_FORBIDDEN, body |-> "forbidden"],
      [status |-> HTTP_SUCCESS, body |-> "no_response"],
      [status |-> HTTP_SUCCESS, body |-> "no_match"],
      [status |-> HTTP_SUCCESS, body |-> "steamid"] }

\* the tiers the tier-lookup service answers with in this model
RemoteTiers == {"gold", "borked"}

\* the ratings found in the cache on disk in this model
CachedRatings == {"silver"}

\* str(game['appid'])
Str(n) == ToString(n)

\* a game dict of the owned-games payload
GameDict(appid, playtime) ==
    [appid |-> appid, name |-> "game" \o ToString(appid), playtime_forever |-> playtime]

\* games lists of n games: the i-th game has appid i, playtimes vary
GameListsOfLen(n) ==
    { [i \in 1..n |-> GameDict(i, pt[i])] : pt \in [1..n -> 1..MaxPlaytime] }

GameLists == UNION { GameListsOfLen(n) : n \in 0..MaxGames }

\* the batch of SpecGate: more games than the semaphore has slots, all alike
GateGames == [i \in 1..(MAX_CONCURRENT_REQUESTS + GateExtra) |-> GameDict(i, 1)]

\* the caches load_cache can find: freshness flag and identifier -> rating
CachesOver(ids) ==
    { [has_game_cache |-> fresh, games |-> g] :
        fresh \in BOOLEAN,
        g \in UNION { [S -> CachedRatings] :
                        S \in { T \in SUBSET ids : Cardinality(T) <= MaxCached } } }

Caches == CachesOver({Str(i) : i \in 1..MaxGames})

\* owned-games payloads: the response lacks 'games', or carries a list
OwnedPayloads(lists) ==
    { [has_games |-> FALSE, games |-> <<>>] } \cup
    { [has_games |-> TRUE, games |-> l] : l \in lists }

OwnedStatuses == {HTTP_SUCCESS, HTTP_BAD_REQUEST, HTTP_UNAUTHORIZED}

\* responses to the appdetails (native-check) request
NativeResponses ==
    { TransportError,
      [status |-> HTTP_SERVER_ERROR, body |-> "malformed"],
      [status |-> HTTP_SUCCESS, body |-> "malformed"],
      [status |-> HTTP_SUCCESS, body |-> "missing_appid"],
      [status |-> HTTP_SUCCESS, body |-> "unsuccessful"],
      [status |-> HTTP_SUCCESS, body |-> "no_data"],
      [status |-> HTTP_SUCCESS, body |-> "linux"],
      [status |-> HTTP_SUCCESS, body |-> "not_linux"] }

\* responses to the ProtonDB summary (tier-lookup) request
TierResponses ==
    { TransportError,
      [status |-> HTTP_SERVER_ERROR, body |-> "malformed"],
      [status |-> HTTP_SUCCESS, body |-> "malformed"],
      [status |-> HTTP_SUCCESS, body |-> "no_tier"] } \cup
    { [status |-> HTTP_SUCCESS, body |-> t] : t \in RemoteTiers }

(***************************************************************************)
(* Pure functions of the code.                                             *)
(***************************************************************************)
Game(name, rating, playtime, app_id) ==
    [name |-> name, rating |-> rating, playtime |-> playtime, app_id |-> app_id]

\* line 218: the id is taken as a Steam ID
IsSteamId(u) == ~(u.len # STEAM_USER_ID_LENGTH \/ ~u.prefix)

\* resolve_vanity_name on its response: the exception raised, or "return"
resolve_vanity_name(resp) ==
    IF resp.status = HTTP_FORBIDDEN THEN "UnauthorizedError"
    ELSE IF resp.body = "no_response" \/ resp.body = "no_match" THEN "InvalidIDError"
    ELSE "return"

\* the exceptions a rating resolution raises (aiohttp.ClientError from
\* async_get, JSONDecodeError from json.loads, KeyError from a subscript)
Exceptions == {"ClientError", "JSONDecodeError", "KeyError"}

\* check_game_is_native on its response: "true", "false" or the exception raised
check_game_is_native(resp) ==
    IF resp = TransportError THEN "ClientError"
    ELSE IF resp.status # HTTP_SUCCESS THEN "false"
    ELSE IF resp.body = "malformed" THEN "JSONDecodeError"
    ELSE IF resp.body = "missing_appid" THEN "false"
    ELSE IF resp.body = "unsuccessful" THEN "false"
    ELSE IF resp.body = "no_data" THEN "KeyError"
    ELSE IF resp.body = "linux" THEN "true"
    ELSE "false"

\* faulty variant: json_data.get('tier') without the default
tier_lookup_no_default(resp) ==
    IF resp = TransportError THEN "ClientError"
    ELSE IF resp.status # HTTP_SUCCESS THEN "pending"
    ELSE IF resp.body = "malformed" THEN "JSONDecodeError"
    ELSE IF resp.body = "no_tier" THEN "None"
    ELSE resp.body

\* lines 154-163 on the tier-lookup response: the rating, or the exception raised
tier_lookup(resp) ==
    IF resp = TransportError THEN "ClientError"
    ELSE IF resp.status # HTTP_SUCCESS THEN "pending"
    ELSE IF resp.body = "malformed" THEN "JSONDecodeError"
    ELSE IF resp.body = "no_tier" THEN "pending"
    ELSE resp.body

\* cache.get_game_data(app_id): the cached rating, or "None"
get_game_data(c, app_id) ==
    IF app_id \in DOMAIN c.games THEN c.games[app_id] ELSE "None"

\* faulty variant: the cache is not consulted
cache_lookup_skipped(c, app_id) == "miss"

\* lines 146-149: the rating a cache hit returns, or "miss"
cache_lookup(c, app_id) ==
    IF c.has_game_cache /\ get_game_data(c, app_id) # "None"
    THEN get_game_data(c, app_id)
    ELSE "miss"

\* list.sort(key=playtime): ascending and stable, so the element at index i goes
\* behind those of smaller playtime and those of equal playtime before it
SortAscending(s) ==
    LET place(i) == 1 + Cardinality({j \in DOMAIN s :
                            \/ s[j].playtime < s[i].playtime
                            \/ s[j].playtime = s[i].playtime /\ j < i})
    IN  [p \in 1..Len(s) |-> s[CHOOSE i \in DOMAIN s : place(i) = p]]

\* list.sort(key=playtime, reverse=True): descending, and stable as well
\* (elements of equal playtime keep their order)
SortDescending(s) ==
    LET place(i) == 1 + Cardinality({j \in DOMAIN s :
                            \/ s[j].playtime > s[i].playtime
                            \/ s[j].playtime = s[i].playtime /\ j < i})
    IN  [p \in 1..Len(s) |-> s[CHOOSE i \in DOMAIN s : place(i) = p]]

\* list.reverse()
Reverse(s) == [i \in 1..Len(s) |-> s[Len(s) + 1 - i]]

\* faulty variant: the snapshot is sorted the way the final list is
InitialSnapshotReversed(gs) ==
    Reverse(SortAscending([i \in 1..Len(gs) |->
        Game(gs[i].name, "loading", gs[i].playtime_forever, Str(gs[i].appid))]))

\* lines 304-315: the snapshot list
InitialSnapshot(gs) ==
    SortDescending([i \in 1..Len(gs) |->
        Game(gs[i].name, "loading", gs[i].playtime_forever, Str(gs[i].appid))])

\* faulty variant: the lookup key never matches, the default is taken
RatingsGetDefault(m, app_id) == "pending"

\* ratings_map.get(app_id, 'pending')
RatingsGet(m, app_id) == IF app_id \in DOMAIN m THEN m[app_id] ELSE "pending"

\* faulty variant: the final list is sorted the way the snapshot is
FinalListDescending(snapshot, m) ==
    SortDescending([i \in 1..Len(snapshot) |->
        Game(snapshot[i].name, RatingsGet(m, snapshot[i].app_id),
             snapshot[i].playtime, snapshot[i].app_id)])

\* faulty variant: the final sort is not reversed
FinalListAscending(snapshot, m) ==
    SortAscending([i \in 1..Len(snapshot) |->
        Game(snapshot[i].name, RatingsGet(m, snapshot[i].app_id),
             snapshot[i].playtime, snapshot[i].app_id)])

\* lines 339-350: the final list
FinalList(snapshot, m) ==
    Reverse(SortAscending([i \in 1..Len(snapshot) |->
        Game(snapshot[i].name, RatingsGet(m, snapshot[i].app_id),
             snapshot[i].playtime, snapshot[i].app_id)]))

\* lines 354-364: game_ratings_copy after the removals
GameRatingsCopy(final, c) ==
    SelectSeq(final, LAMBDA g : get_game_data(c, g.app_id) = "None")

\* faulty variant: halves round up
RoundHalfUp(total, n) ==
    LET q == total \div n
        r == total % n
    IN  IF 2 * r < n THEN q ELSE q + 1

\* RATING_DICT[rating][0]
Rank(rating) ==
    LET i == CHOOSE j \in DOMAIN RATING_DICT : RATING_DICT[j][1] = rating
    IN  RATING_DICT[i][2]

\* the sum of the first n numbers of s
RECURSIVE SumTo(_, _)
SumTo(s, n) == IF n = 0 THEN 0 ELSE SumTo(s, n - 1) + s[n]

\* sum(game_rating_nums)
Sum(s) == SumTo(s, Len(s))

\* round(total / n): Python rounds halves to the even neighbour
Round(total, n) ==
    LET q == total \div n
        r == total % n
    IN  IF 2 * r < n THEN q
        ELSE IF 2 * r > n THEN q + 1
        ELSE IF q % 2 = 0 THEN q ELSE q + 1

\* lines 372-374: next(key for key, value in RATING_DICT.items() if value[0] == rank);
\* a generator that ends without a key raises (RuntimeError out of the coroutine)
FirstKeyOfRank(rank) ==
    LET hits == {j \in DOMAIN RATING_DICT : RATING_DICT[j][2] = rank}
    IN  IF hits = {} THEN "RuntimeError"
        ELSE RATING_DICT[CHOOSE j \in hits : \A k \in hits : j <= k][1]

\* lines 370-374: the aggregate rating, or the exception the lines raise
UserAverage(final) ==
    IF \E i \in DOMAIN final : final[i].rating \notin RatingKeys THEN "KeyError"
    ELSE IF final = <<>> THEN "ZeroDivisionError"
    ELSE LET game_rating_nums == [i \in 1..Len(final) |-> Rank(final[i].rating)]
         IN  CHOOSE key \in { FirstKeyOfRank(user_average) :
                               user_average \in { Round(Sum(game_rating_nums),
                                                        Len(game_rating_nums)) } } : TRUE

(***************************************************************************)
(* The batch: get_steam_user_data and _parse_steam_user_games.             *)
(***************************************************************************)
NoResult == [game_ratings |-> <<>>, user_average |-> "none"]
EmptyCache == [has_game_cache |-> FALSE, games |-> <<>>]

\* the variables of get_anti_cheat_data, which the rating batch leaves alone
antiCheatVars == <<ac_pc, ac_cache, ac_data, ac_result, ac_commits>>

\* get_anti_cheat_data has not been called
AntiCheatIdle ==
    /\ ac_pc = "start"
    /\ ac_cache = [has_anticheat_cache |-> FALSE, anticheat |-> <<>>]
    /\ ac_data = <<>>
    /\ ac_result = "none"
    /\ ac_commits = <<>>

Init ==
    /\ pc = "start"
    /\ outcome = "none"
    /\ user_id \in UserIds
    /\ callbacks \in [loaded : BOOLEAN, updated : BOOLEAN]
    /\ cache = EmptyCache
    /\ data = <<>>
    /\ games = <<>>
    /\ game_ratings = <<>>
    /\ sem_value = 0
    /\ sem_waiters = <<>>
    /\ tpc = <<>>
    /\ completed = <<>>
    /\ nconsumed = 0
    /\ ratings_map = <<>>
    /\ result = NoResult
    /\ native_calls = <<>>
    /\ tier_calls = <<>>
    /\ failed = <<>>
    /\ produced = <<>>
    /\ loaded_log = <<>>
    /\ loaded_done = FALSE
    /\ updated_log = <<>>
    /\ cache_commits = <<>>
    /\ requests = <<>>
    /\ AntiCheatIdle

taskVars == <<sem_value, sem_waiters, tpc, completed, nconsumed, ratings_map,
              native_calls, tier_calls, failed, produced, updated_log>>

\* an exception leaves get_steam_user_data
Raise(exc) ==
    /\ pc' = "raised"
    /\ outcome' = exc

\* lines 217-230 for a user_id taken as a Steam ID: load the cache, request the games;
\* for any other user_id: request the name resolution
Begin(c) ==
    /\ pc = "start"
    /\ IF IsSteamId(user_id)
       THEN /\ cache' = c
            /\ pc' = "owned_wait"
       ELSE /\ pc' = "vanity_wait"
            /\ UNCHANGED cache
    /\ UNCHANGED <<outcome, user_id, callbacks, data, games, game_ratings, result,
                   loaded_log, loaded_done, cache_commits, requests>>
    /\ UNCHANGED taskVars
    /\ UNCHANGED antiCheatVars

\* faulty variant: InvalidIDError of the name resolution is not caught
SuppressedNothing(exc) == FALSE

\* lines 223-224: the except clause that ends in `pass`
Suppressed(exc) == exc = "InvalidIDError"

\* lines 219-230: the name resolution answers
VanityResponse(resp, c) ==
    /\ pc = "vanity_wait"
    /\ LET r == resolve_vanity_name(resp)
       IN  /\ requests' = Append(requests, [call |-> "ResolveVanityURL", gave |-> r])
           /\ IF r # "return" /\ ~Suppressed(r)
              THEN /\ Raise(r)
                   /\ UNCHANGED <<user_id, cache>>
              ELSE /\ user_id' = IF r = "return" THEN ResolvedSteamId ELSE user_id
                   /\ cache' = c
                   /\ pc' = "owned_wait"
                   /\ UNCHANGED outcome
    /\ UNCHANGED <<callbacks, data, games, game_ratings, result,
                   loaded_log, loaded_done, cache_commits>>
    /\ UNCHANGED taskVars
    /\ UNCHANGED antiCheatVars

\* line 322: the semaphore's initial value
SemaphoreInit == MAX_CONCURRENT_REQUESTS

\* faulty variant: the loop stops at the first finished task
LoopDoneAtFirst(taken, n) == taken >= 1 \/ n = 0

\* line 332: the loop over as_completed has yielded every task
LoopDone(taken, n) == taken = n

\* lines 322-332: the semaphore, ratings_map, one task per game; the loop starts
StartResolving(gs) ==
    /\ sem_value' = SemaphoreInit
    /\ sem_waiters' = <<>>
    /\ ratings_map' = <<>>
    /\ tpc' = [i \in 1..Len(gs) |-> "created"]
    /\ completed' = <<>>
    /\ nconsumed' = 0
    /\ native_calls' = [i \in 1..Len(gs) |-> 0]
    /\ tier_calls' = [i \in 1..Len(gs) |-> 0]
    /\ failed' = [i \in 1..Len(gs) |-> FALSE]
    /\ produced' = [i \in 1..Len(gs) |-> "none"]
    /\ pc' = IF LoopDone(0, Len(gs)) THEN "finalizing" ELSE "resolving"
    /\ UNCHANGED updated_log

\* faulty variant: the missing games list is read as an empty one
IsPrivateUnchecked(payload) == FALSE

\* line 298: the response carries no games list
IsPrivate(payload) == ~payload.has_games

\* faulty variant: on_games_loaded is called and not awaited
OnGamesLoadedNotAwaited(cb) == FALSE

\* line 319: the call of on_games_loaded is awaited
AwaitsOnGamesLoaded(cb) == cb.loaded

\* lines 231-240 and 296-332: the owned-games request answers
OwnedGamesResponse(status, payload) ==
    /\ pc = "owned_wait"
    /\ requests' = Append(requests, [call |-> "GetOwnedGames", gave |-> status])
    /\ IF status = HTTP_BAD_REQUEST
       THEN /\ Raise("InvalidIDError")
            /\ UNCHANGED <<data, games, game_ratings, loaded_log>>
            /\ UNCHANGED taskVars
       ELSE IF status = HTTP_UNAUTHORIZED
       THEN /\ Raise("UnauthorizedError")
            /\ UNCHANGED <<data, games, game_ratings, loaded_log>>
            /\ UNCHANGED taskVars
       ELSE /\ data' = <<payload>>
            /\ IF IsPrivate(payload)
               THEN /\ Raise("PrivateAccountError")
                    /\ UNCHANGED <<games, game_ratings, loaded_log>>
                    /\ UNCHANGED taskVars
               ELSE /\ games' = payload.games
                    /\ game_ratings' = InitialSnapshot(payload.games)
                    /\ loaded_log' = IF callbacks.loaded
                                     THEN Append(loaded_log, InitialSnapshot(payload.games))
                                     ELSE loaded_log
                    /\ UNCHANGED outcome
                    /\ IF AwaitsOnGamesLoaded(callbacks)
                       THEN /\ pc' = "snapshot_cb"
                            /\ UNCHANGED taskVars
                       ELSE StartResolving(payload.games)
    /\ UNCHANGED <<user_id, callbacks, cache, result, loaded_done, cache_commits>>
    /\ UNCHANGED antiCheatVars

\* lines 319-332: on_games_loaded returns
OnGamesLoadedReturn ==
    /\ pc = "snapshot_cb"
    /\ loaded_done' = TRUE
    /\ StartResolving(games)
    /\ UNCHANGED <<outcome, user_id, callbacks, cache, data, games, game_ratings,
                   result, loaded_log, cache_commits, requests>>
    /\ UNCHANGED antiCheatVars

(***************************************************************************)
(* The resolver tasks: _fetch_single_game_rating under the semaphore.      *)
(***************************************************************************)
batchOnly == <<outcome, user_id, callbacks, cache, data, games, game_ratings,
               result, loaded_log, loaded_done, cache_commits, requests, antiCheatVars>>

\* faulty variant: the tasks do not go through the semaphore
SemaphoreNeverLocked(value, waiters) == FALSE

\* asyncio.Semaphore.locked(): no slot is free, or a task is queued for one
SemaphoreLocked(value, waiters) == value = 0 \/ waiters # <<>>

\* faulty variant: the except clause names the transport error only
CatchesClientErrorOnly(exc) == exc = "ClientError"

\* line 263: the except clause takes the exception
Catches(exc) == exc \in Exceptions

\* the tasks that hold the semaphore: inside `async with semaphore` (line 260)
Holders == {t \in DOMAIN tpc : tpc[t] \in {"woken", "native", "tier"}}

\* lines 263-270 and the exit of `async with semaphore`: task t, holding a slot
\* while the semaphore's value is v, ends with r (a rating, or the exception
\* get_game_average_rating raised); the slot goes to the first waiter if there is one
Complete(t, v, r) ==
    LET escapes == r \in Exceptions /\ ~Catches(r)
        rating == IF r \in Exceptions /\ Catches(r) THEN "pending" ELSE r
        game == Game(games[t].name, rating, games[t].playtime_forever, Str(games[t].appid))
    IN  /\ failed' = [failed EXCEPT ![t] = r \in Exceptions]
        /\ produced' = [produced EXCEPT ![t] = rating]
        /\ completed' = Append(completed, [task |-> t, raised |-> escapes, game |-> game])
        /\ IF sem_waiters # <<>>
           THEN /\ sem_value' = v
                /\ sem_waiters' = Tail(sem_waiters)
                /\ tpc' = [tpc EXCEPT ![t] = "done", ![Head(sem_waiters)] = "woken"]
           ELSE /\ sem_value' = v + 1
                /\ sem_waiters' = sem_waiters
                /\ tpc' = [tpc EXCEPT ![t] = "done"]

\* the loop of line 332 is running: the tasks exist and may run
TasksLive == pc \in {"resolving", "update_cb"}

\* lines 260-262 and 146-151: task t runs from its start, or from the wake-up of
\* its wait on the semaphore, to its next suspension: it queues for a slot, or
\* takes one and then returns the cached rating or issues the native-check
TaskRun(t) ==
    /\ TasksLive
    /\ tpc[t] \in {"created", "woken"}
    /\ IF tpc[t] = "created" /\ SemaphoreLocked(sem_value, sem_waiters)
       THEN /\ tpc' = [tpc EXCEPT ![t] = "waiting"]
            /\ sem_waiters' = Append(sem_waiters, t)
            /\ UNCHANGED <<sem_value, completed, native_calls, failed, produced>>
       ELSE LET v == IF tpc[t] = "created" THEN sem_value - 1 ELSE sem_value
                hit == cache_lookup(cache, Str(games[t].appid))
            IN  IF hit # "miss"
                THEN /\ Complete(t, v, hit)
                     /\ UNCHANGED native_calls
                ELSE /\ tpc' = [tpc EXCEPT ![t] = "native"]
                     /\ native_calls' = [native_calls EXCEPT ![t] = @ + 1]
                     /\ sem_value' = v
                     /\ UNCHANGED <<sem_waiters, completed, failed, produced>>
    /\ UNCHANGED <<pc, nconsumed, ratings_map, tier_calls, updated_log>>
    /\ UNCHANGED batchOnly

\* lines 151-157: the native-check of task t answers
NativeResponse(t, resp) ==
    /\ TasksLive
    /\ tpc[t] = "native"
    /\ LET r == check_game_is_native(resp)
       IN  IF r = "false"
           THEN /\ tpc' = [tpc EXCEPT ![t] = "tier"]
                /\ tier_calls' = [tier_calls EXCEPT ![t] = @ + 1]
                /\ UNCHANGED <<sem_value, sem_waiters, completed, failed, produced>>
           ELSE /\ Complete(t, sem_value, IF r = "true" THEN "native" ELSE r)
                /\ UNCHANGED tier_calls
    /\ UNCHANGED <<pc, nconsumed, ratings_map, native_calls, updated_log>>
    /\ UNCHANGED batchOnly

\* lines 158-163: the tier-lookup of task t answers
TierResponse(t, resp) ==
    /\ TasksLive
    /\ tpc[t] = "tier"
    /\ Complete(t, sem_value, tier_lookup(resp))
    /\ UNCHANGED <<pc, nconsumed, ratings_map, native_calls, tier_calls, updated_log>>
    /\ UNCHANGED batchOnly

(***************************************************************************)
(* The loop over as_completed and the final steps.                         *)
(***************************************************************************)
\* faulty variant: the callback is given the game's entry of the snapshot list
DeliveredSnapshotEntry(fetched_game) == [fetched_game EXCEPT !.rating = "loading"]

\* line 336: the Game on_game_updated is called with
Delivered(fetched_game) == fetched_game

\* lines 332-336: the loop takes the next finished task
NextCompleted ==
    /\ pc = "resolving"
    /\ completed # <<>>
    /\ LET e == Head(completed)
       IN  /\ completed' = Tail(completed)
           /\ IF e.raised
              THEN /\ Raise(e.game.rating)
                   /\ UNCHANGED <<nconsumed, ratings_map, updated_log>>
              ELSE /\ ratings_map' = (e.game.app_id :> e.game.rating) @@ ratings_map
                   /\ nconsumed' = nconsumed + 1
                   /\ UNCHANGED outcome
                   /\ IF callbacks.updated
                      THEN /\ updated_log' = Append(updated_log, Delivered(e.game))
                           /\ pc' = "update_cb"
                      ELSE /\ pc' = IF LoopDone(nconsumed + 1, Len(games))
                                    THEN "finalizing" ELSE "resolving"
                           /\ UNCHANGED updated_log
    /\ UNCHANGED <<sem_value, sem_waiters, tpc, native_calls, tier_calls, failed, produced>>
    /\ UNCHANGED <<user_id, callbacks, cache, data, games, game_ratings,
                   result, loaded_log, loaded_done, cache_commits, requests>>
    /\ UNCHANGED antiCheatVars

\* lines 336 and 332: on_game_updated returns
OnGameUpdatedReturn ==
    /\ pc = "update_cb"
    /\ pc' = IF LoopDone(nconsumed, Len(games)) THEN "finalizing" ELSE "resolving"
    /\ UNCHANGED taskVars
    /\ UNCHANGED batchOnly

\* line 367: the list handed to cache.update_cache
CommittedList(final, copy) == final

\* faulty variant: the list with the cached games removed is returned
ReturnedCopy(final, copy) == copy

\* line 376: the list returned
ReturnedList(final, copy) == final

\* lines 338-376: the final list, the cache update, the average, the return
Finalize ==
    /\ pc = "finalizing"
    /\ \E final \in {FinalList(game_ratings, ratings_map)} :
       \E average \in {UserAverage(final)} :
       \E copy \in {GameRatingsCopy(final, cache)} :
           /\ game_ratings' = final
           /\ cache_commits' = Append(cache_commits, CommittedList(final, copy))
           /\ IF average \in {"KeyError", "ZeroDivisionError", "RuntimeError"}
              THEN /\ Raise(average)
                   /\ UNCHANGED result
              ELSE /\ pc' = "returned"
                   /\ outcome' = "LibraryResult"
                   /\ result' = [game_ratings |-> ReturnedList(final, copy),
                                 user_average |-> average]
    /\ UNCHANGED <<user_id, callbacks, cache, data, games, loaded_log, loaded_done,
                   requests>>
    /\ UNCHANGED taskVars
    /\ UNCHANGED antiCheatVars

(***************************************************************************)
(* get_anti_cheat_data (lines 92-128), a call of its own.                  *)
(***************************************************************************)
\* the members of AntiCheatStatus in this model
AntiCheatStatuses == {"Supported", "Denied"}

\* the records of the source's list: game['storeIds'] holds a 'steam' entry, holds
\* other stores only, or is missing; game['status'] is a member of AntiCheatStatus or not
AntiCheatRecords ==
    { [storeIds |-> "steam", steam |-> "1", status |-> "Supported"],
      [storeIds |-> "other", steam |-> "", status |-> "Denied"],
      [storeIds |-> "steam", steam |-> "2", status |-> "bogus"],
      [storeIds |-> "missing", steam |-> "", status |-> "Supported"] }

AntiCheatPayloads ==
    UNION { [1..n -> AntiCheatRecords] : n \in 0..MaxRecords }

\* responses to the request of line 104: no response (async_get raises), or a
\* status with a body that json.loads rejects or reads as a list of records
AntiCheatResponses ==
    { [status |-> "none", parsable |-> FALSE, records |-> <<>>] } \cup
    { [status |-> st, parsable |-> FALSE, records |-> <<>>] :
          st \in {HTTP_SUCCESS, HTTP_SERVER_ERROR} } \cup
    { [status |-> st, parsable |-> TRUE, records |-> l] :
          st \in {HTTP_SUCCESS, HTTP_SERVER_ERROR}, l \in AntiCheatPayloads }

\* the caches load_cache can find, as get_anti_cheat_data reads them
AntiCheatCaches ==
    { [has_anticheat_cache |-> fresh, anticheat |-> l] :
          fresh \in BOOLEAN,
          l \in { <<>>, << [app_id |-> "1", status |-> "Denied"] >>,
                  << [app_id |-> "3", status |-> "Supported"] >> } }

\* faulty variant: the status of the response is not looked at
SoftFailureUnparsableOnly(resp) == ~resp.parsable

\* lines 108-114: the response makes the function return None
SoftFailure(resp) == resp.status # HTTP_SUCCESS \/ ~resp.parsable

\* lines 117-124: the list of AntiCheatData, or the exception the first record
\* that raises one raises (KeyError at game['storeIds'], ValueError at
\* AntiCheatStatus(game['status']) of a record that has a 'steam' entry);
\* raised is "none" when the list is built
Deserialize(records) ==
    LET bad == {i \in DOMAIN records :
                   \/ records[i].storeIds = "missing"
                   \/ records[i].storeIds = "steam" /\ records[i].status \notin AntiCheatStatuses}
        kept == SelectSeq(records, LAMBDA g : g.storeIds = "steam")
    IN  IF bad # {}
        THEN [raised |-> IF records[CHOOSE i \in bad : \A j \in bad : i <= j].storeIds
                                = "missing"
                         THEN "KeyError" ELSE "ValueError",
              list |-> <<>>]
        ELSE [raised |-> "none",
              list |-> [i \in 1..Len(kept) |->
                           [app_id |-> kept[i].steam, status |-> kept[i].status]]]

\* the variables of the rating batch, which get_anti_cheat_data leaves alone
ratingVars == <<pc, outcome, user_id, callbacks, cache, data, games, game_ratings,
                result, loaded_log, loaded_done, cache_commits, requests>>

\* lines 100-106: load the cache; return it if its anti-cheat data is fresh,
\* request the source's list otherwise
AntiCheatBegin(c) ==
    /\ ac_pc = "start"
    /\ ac_cache' = c
    /\ IF c.has_anticheat_cache
       THEN /\ ac_pc' = "returned"
            /\ ac_result' = "cache"
       ELSE /\ ac_pc' = "wait"
            /\ UNCHANGED ac_result
    /\ UNCHANGED <<ac_data, ac_commits>>
    /\ UNCHANGED ratingVars
    /\ UNCHANGED taskVars

\* lines 104-128: the request of the source's list answers
AntiCheatResponse(resp) ==
    /\ ac_pc = "wait"
    /\ ac_data' = <<resp>>
    /\ IF resp.status = "none"
       THEN /\ ac_pc' = "raised"
            /\ ac_result' = "ClientError"
            /\ UNCHANGED ac_commits
       ELSE IF SoftFailure(resp)
       THEN /\ ac_pc' = "returned"
            /\ ac_result' = "None"
            /\ UNCHANGED ac_commits
       ELSE \E deserialized_data \in {Deserialize(resp.records)} :
            IF deserialized_data.raised # "none"
            THEN /\ ac_pc' = "raised"
                 /\ ac_result' = deserialized_data.raised
                 /\ UNCHANGED ac_commits
            ELSE /\ ac_commits' = Append(ac_commits, deserialized_data.list)
                 /\ ac_pc' = "returned"
                 /\ ac_result' = "cache"
    /\ UNCHANGED ac_cache
    /\ UNCHANGED ratingVars
    /\ UNCHANGED taskVars

\* a call of get_anti_cheat_data while no rating batch runs
InitAntiCheat ==
    /\ Init
    /\ IsSteamId(user_id)
    /\ callbacks = [loaded |-> FALSE, updated |-> FALSE]

NextAntiCheat ==
    \/ \E c \in AntiCheatCaches : AntiCheatBegin(c)
    \/ \E resp \in AntiCheatResponses : AntiCheatResponse(resp)

SpecAntiCheat == InitAntiCheat /\ [][NextAntiCheat]_vars

(***************************************************************************)
(* Specifications.                                                         *)
(***************************************************************************)
Next ==
    \/ \E c \in Caches : Begin(c)
    \/ \E resp \in VanityResponses, c \in Caches : VanityResponse(resp, c)
    \/ \E status \in OwnedStatuses, payload \in OwnedPayloads(GameLists) :
          OwnedGamesResponse(status, payload)
    \/ OnGamesLoadedReturn
    \/ \E t \in DOMAIN tpc : TaskRun(t)
    \/ \E t \in DOMAIN tpc, resp \in NativeResponses : NativeResponse(t, resp)
    \/ \E t \in DOMAIN tpc, resp \in TierResponses : TierResponse(t, resp)
    \/ NextCompleted
    \/ OnGameUpdatedReturn
    \/ Finalize

Spec == Init /\ [][Next]_vars

\* the event loop runs whatever is ready, every request is answered (by a response
\* or a transport error) and every callback returns: a possible step is taken
FairSpec == Spec /\ WF_vars(Next)

Terminated == pc \in {"returned", "raised"}

(***************************************************************************)
(* SpecGate: one batch with more games than the semaphore has slots.  The  *)
(* response each request gets is fixed by the game; of the tasks at the    *)
(* same position the one of the lowest index runs first, and the loop      *)
(* takes a finished task before another task runs.                         *)
(***************************************************************************)
\* the cache of the batch of SpecGate: fresh, the first game is cached
GateCache == [has_game_cache |-> TRUE, games |-> (Str(1) :> "silver")]

\* the answer to the native-check of the batch's t-th game
GateNativeResponse(t) ==
    IF t % 4 = 0 THEN TransportError
    ELSE IF t % 4 = 1 THEN [status |-> HTTP_SUCCESS, body |-> "linux"]
    ELSE [status |-> HTTP_SUCCESS, body |-> "not_linux"]

\* the answer to the tier-lookup of the batch's t-th game
GateTierResponse(t) ==
    IF t % 4 = 2 THEN [status |-> HTTP_SUCCESS, body |-> "gold"]
    ELSE [status |-> HTTP_SUCCESS, body |-> "malformed"]

\* t has the lowest index of the tasks at its position, and no finished task
\* is left in the queue of as_completed
First(t) ==
    /\ completed = <<>>
    /\ \A u \in DOMAIN tpc : u < t => tpc[u] # tpc[t]

InitGate ==
    /\ Init
    /\ IsSteamId(user_id)
    /\ callbacks = [loaded |-> FALSE, updated |-> FALSE]

NextGate ==
    \/ Begin(GateCache)
    \/ OwnedGamesResponse(HTTP_SUCCESS, [has_games |-> TRUE, games |-> GateGames])
    \/ \E t \in DOMAIN tpc : First(t) /\ TaskRun(t)
    \/ \E t \in DOMAIN tpc : First(t) /\ NativeResponse(t, GateNativeResponse(t))
    \/ \E t \in DOMAIN tpc : First(t) /\ TierResponse(t, GateTierResponse(t))
    \/ NextCompleted
    \/ Finalize

SpecGate == InitGate /\ [][NextGate]_vars

(***************************************************************************)
(* SpecAvg: the final steps (lines 338-376) of batches whose tasks         *)
(* produced every combination of the keys of RATING_DICT: the tier-lookup  *)
(* service and the cache may supply any of them.  The batches start where  *)
(* the loop over the tasks has ended; the games all have playtime 1.       *)
(***************************************************************************)
\* the games of a batch of n games in SpecAvg
AvgGames(n) == [i \in 1..n |-> GameDict(i, 1)]

\* ratings_map after the loop has taken n tasks that produced the ratings rs
AvgRatingsMap(n, rs) ==
    [a \in {Str(i) : i \in 1..n} |-> rs[CHOOSE i \in 1..n : Str(i) = a]]

InitAvg ==
    \E n \in 1..MaxAvgGames : \E rs \in [1..n -> RatingKeys] :
        /\ pc = "finalizing"
        /\ outcome = "none"
        /\ user_id = [len |-> STEAM_USER_ID_LENGTH, prefix |-> TRUE, resolved |-> FALSE]
        /\ callbacks = [loaded |-> FALSE, updated |-> FALSE]
        /\ cache = EmptyCache
        /\ data = << [has_games |-> TRUE, games |-> AvgGames(n)] >>
        /\ games = AvgGames(n)
        /\ game_ratings = InitialSnapshot(AvgGames(n))
        /\ sem_value = SemaphoreInit
        /\ sem_waiters = <<>>
        /\ tpc = [i \in 1..n |-> "done"]
        /\ completed = <<>>
        /\ nconsumed = n
        /\ ratings_map = AvgRatingsMap(n, rs)
        /\ result = NoResult
        /\ native_calls = [i \in 1..n |-> 1]
        /\ tier_calls = [i \in 1..n |-> IF rs[i] = "native" THEN 0 ELSE 1]
        /\ failed = [i \in 1..n |-> FALSE]
        /\ produced = rs
        /\ loaded_log = <<>>
        /\ loaded_done = FALSE
        /\ updated_log = <<>>
        /\ cache_commits = <<>>
        /\ requests = << [call |-> "GetOwnedGames", gave |-> HTTP_SUCCESS] >>
        /\ AntiCheatIdle

NextAvg == Finalize

SpecAvg == InitAvg /\ [][NextAvg]_vars

(***************************************************************************)
(* Properties.                                                             *)
(***************************************************************************)
Tasks == DOMAIN tpc

AppId(t) == Str(games[t].appid)

\* the rating the returned list carries for the game of task t ("absent" if none)
FinalRating(t) ==
    LET hits == {i \in DOMAIN result.game_ratings : result.game_ratings[i].app_id = AppId(t)}
    IN  IF hits = {} THEN "absent" ELSE result.game_ratings[CHOOSE i \in hits : TRUE].rating

RemoteCallIssued == \E t \in Tasks : native_calls[t] > 0 \/ tier_calls[t] > 0

\* C1: in the batch of SpecGate, whose games outnumber the semaphore's slots, at
\* most MAX_CONCURRENT_REQUESTS (20) tasks hold the semaphore in every reachable
\* state, so at most 20 remote calls (native-check or tier-lookup) and at most 20
\* tier-lookup calls are in flight, whichever way each task ends (cache hit,
\* native, tier lookup, exception).
C1_GateBound ==
    /\ Cardinality(Holders) <= MAX_CONCURRENT_REQUESTS
    /\ Cardinality({t \in Tasks : tpc[t] \in {"native", "tier"}}) <= MAX_CONCURRENT_REQUESTS
    /\ Cardinality({t \in Tasks : tpc[t] = "tier"}) <= MAX_CONCURRENT_REQUESTS

\* C1 witness: every slot is taken by a request in flight while a task waits for one,
\* and tasks have already ended by a cache hit, by an exception and with 'native'
C1_Witness ==
    /\ Cardinality({t \in Tasks : tpc[t] \in {"native", "tier"}}) = MAX_CONCURRENT_REQUESTS
    /\ sem_waiters # <<>>
    /\ \E t \in Tasks : tpc[t] = "tier"
    /\ \E t \in Tasks : tpc[t] = "done" /\ failed[t]
    /\ \E t \in Tasks : tpc[t] = "done" /\ produced[t] = "native"
    /\ \E t \in Tasks : tpc[t] = "done" /\ native_calls[t] = 0

\* C2: when on_games_loaded is given, no native-check or tier-lookup request has
\* been issued and on_game_updated has not been called until the call of
\* on_games_loaded, made with the snapshot list, has returned.
C2_SnapshotFirst ==
    /\ (RemoteCallIssued \/ updated_log # <<>>) =>
           (callbacks.loaded => loaded_log # <<>> /\ loaded_done)
    /\ (loaded_log # <<>> /\ ~loaded_done) =>
           (Tasks = {} /\ updated_log = <<>>)

\* C2 witness: on_games_loaded has returned, requests were issued and on_game_updated called
C2_Witness ==
    /\ callbacks.loaded /\ loaded_done
    /\ RemoteCallIssued
    /\ updated_log # <<>>

\* C3: an exception raised in one game's resolution (transport error or malformed
\* payload of the native-check or the tier-lookup) gives that game the rating
\* 'pending' and ends its task with the semaphore slot released; no such exception
\* ends the batch; and, requests being answered and callbacks returning, the batch
\* goes on to return a result, which it does only when every task has finished and
\* in which every game, failed or not, has the rating its own task produced.
C3_Safe ==
    /\ \A t \in Tasks : failed[t] =>
           /\ tpc[t] = "done"
           /\ t \notin Holders
           /\ produced[t] = "pending"
    /\ Tasks # {} => sem_value + Cardinality(Holders) = MAX_CONCURRENT_REQUESTS
    /\ outcome \notin Exceptions
    /\ ((\E t \in Tasks : failed[t]) /\ Terminated) =>
           /\ outcome = "LibraryResult"
           /\ \A u \in Tasks : tpc[u] = "done" /\ FinalRating(u) = produced[u]

C3_FailureIsolated ==
    /\ []C3_Safe
    /\ [](((\E t \in Tasks : failed[t])) => <>(outcome = "LibraryResult"))

\* C3 witness: the batch has returned; one task failed at a malformed payload, another
\* produced a rating other than 'pending'
C3_Witness ==
    /\ outcome = "LibraryResult"
    /\ \E t \in Tasks : failed[t] /\ FinalRating(t) = "pending"
    /\ \E u \in Tasks : ~failed[u] /\ FinalRating(u) \in {"gold", "native", "silver"}

\* C4: the list of a returned result has as many entries as the input games list,
\* and its identifiers are the input identifiers.
C4_SameGames ==
    outcome = "LibraryResult" =>
        /\ Len(result.game_ratings) = Len(games)
        /\ {result.game_ratings[i].app_id : i \in DOMAIN result.game_ratings}
               = {AppId(t) : t \in DOMAIN games}

\* C4 witness: a result of two or more games, one of them found in the cache
C4_Witness ==
    /\ outcome = "LibraryResult"
    /\ Len(games) >= 2
    /\ \E t \in Tasks : get_game_data(cache, AppId(t)) # "None"

\* C5: in the list of a returned result every rating is a tier, 'native' or
\* 'pending', never 'loading', and is the rating the game's task produced.
C5_NoLoading ==
    outcome = "LibraryResult" =>
        /\ \A i \in DOMAIN result.game_ratings :
               /\ result.game_ratings[i].rating # "loading"
               /\ result.game_ratings[i].rating \in
                      {"borked", "bronze", "silver", "gold", "platinum", "native", "pending"}
        /\ \A t \in Tasks : FinalRating(t) = produced[t]

\* C5 witness: a result whose games were all 'loading' in the snapshot and now carry
\* a tier and 'native'
C5_Witness ==
    /\ outcome = "LibraryResult"
    /\ \E t \in Tasks : FinalRating(t) = "native"
    /\ \E t \in Tasks : FinalRating(t) \in RemoteTiers

\* the place of task t's game in a list sorted by playtime descending in which
\* games of equal playtime stand in the reverse of their input order
Place(t) ==
    1 + Cardinality({u \in DOMAIN games :
            \/ games[u].playtime_forever > games[t].playtime_forever
            \/ games[u].playtime_forever = games[t].playtime_forever /\ u > t})

\* C6: the list of a returned result is sorted by playtime descending and is fixed
\* by the input list and the ratings the tasks produced, whatever the order in
\* which the tasks finished: each game stands at the place its playtime and its
\* input index give it.
C6_OrderDetermined ==
    outcome = "LibraryResult" =>
        /\ \A i, j \in DOMAIN result.game_ratings :
               i < j => result.game_ratings[i].playtime >= result.game_ratings[j].playtime
        /\ Len(result.game_ratings) = Len(games)
        /\ \A t \in DOMAIN games :
               result.game_ratings[Place(t)] =
                   Game(games[t].name, produced[t], games[t].playtime_forever, AppId(t))

\* C6 witness: a result of games with different playtimes whose tasks finished in
\* the reverse of the input order
C6_Witness ==
    /\ outcome = "LibraryResult"
    /\ Len(updated_log) >= 2
    /\ updated_log[1].app_id = AppId(2)
    /\ updated_log[2].app_id = AppId(1)
    /\ games[1].playtime_forever # games[2].playtime_forever

\* C7: for a game whose identifier the fresh cache holds with rating R, no
\* native-check and no tier-lookup request is issued, the task returns R, and a
\* returned result carries R for the game.
C7_CacheShortCircuit ==
    \A t \in Tasks :
        (cache.has_game_cache /\ AppId(t) \in DOMAIN cache.games) =>
            /\ native_calls[t] = 0
            /\ tier_calls[t] = 0
            /\ tpc[t] = "done" => produced[t] = cache.games[AppId(t)]
            /\ outcome = "LibraryResult" => FinalRating(t) = cache.games[AppId(t)]

\* C7 witness: a returned result with a game served from the fresh cache next to a
\* game that needed a request
C7_Witness ==
    /\ outcome = "LibraryResult"
    /\ \E t \in Tasks : cache.has_game_cache /\ AppId(t) \in DOMAIN cache.games
    /\ \E u \in Tasks : native_calls[u] > 0

\* C8: in a batch cache.update_cache is called at most once; before the loop over
\* the tasks has ended it has not been called; when it is called every task has
\* finished and been taken by the loop; a batch that returns a result has called
\* it exactly once.
C8_SingleCacheWrite ==
    /\ Len(cache_commits) <= 1
    /\ cache_commits # <<>> =>
           /\ \A t \in Tasks : tpc[t] = "done"
           /\ completed = <<>>
           /\ nconsumed = Len(games)
           /\ Terminated
    /\ outcome = "LibraryResult" => Len(cache_commits) = 1

\* C8 witness: a returned result of two or more games, after the one cache write
C8_Witness ==
    /\ outcome = "LibraryResult"
    /\ Len(games) >= 2
    /\ Len(cache_commits) = 1
    /\ \E t \in Tasks : native_calls[t] > 0

\* C9: when the payload handed to _parse_steam_user_games has no games list, the
\* batch has ended with PrivateAccountError and no result, no callback has been
\* called, no task was created, no rating request was issued and the cache has not
\* been written.
C9_PrivateAccount ==
    (data # <<>> /\ ~data[1].has_games) =>
        /\ pc = "raised"
        /\ outcome = "PrivateAccountError"
        /\ result = NoResult
        /\ loaded_log = <<>>
        /\ updated_log = <<>>
        /\ Tasks = {}
        /\ ~RemoteCallIssued
        /\ cache_commits = <<>>

\* C9 witness: a payload without games list was received by a call given both callbacks
C9_Witness ==
    /\ data # <<>>
    /\ ~data[1].has_games
    /\ callbacks.loaded
    /\ callbacks.updated

\* C10: every call of get_steam_user_data that has ended gave its caller a
\* LibraryResult, the credential error (UnauthorizedError), the invalid-identifier
\* error (InvalidIDError) or PrivateAccountError, whatever the name resolution and
\* the owned-games request answered and whatever the games list (the empty list
\* included).
C10_FourOutcomes ==
    Terminated =>
        outcome \in {"LibraryResult", "UnauthorizedError", "InvalidIDError",
                     "PrivateAccountError"}

\* the name resolution was asked and reported the name unresolvable
Unresolvable ==
    \E i \in DOMAIN requests :
        requests[i] = [call |-> "ResolveVanityURL", gave |-> "InvalidIDError"]

\* C11 as stated: once the name resolution has reported the vanity name
\* unresolvable, no snapshot callback is made, no task created and the cache not
\* written, and the batch, when it ends, ends with InvalidIDError.
C11_UnresolvableAborts ==
    Unresolvable =>
        /\ loaded_log = <<>>
        /\ Tasks = {}
        /\ cache_commits = <<>>
        /\ Terminated => outcome = "InvalidIDError"

\* C11 as amended: once the name resolution has reported the vanity name
\* unresolvable, the error is suppressed and the batch goes on to request the owned
\* games under the name as given; the batch ends with InvalidIDError exactly when
\* that request answers with the bad-request status, and then no snapshot callback
\* was made, no task created, no rating request issued and the cache not written.
C11_UnresolvableGoesOn ==
    Unresolvable =>
        /\ ~IsSteamId(user_id)
        /\ pc # "vanity_wait"
        /\ outcome = "InvalidIDError" <=>
               /\ Len(requests) = 2
               /\ requests[2] = [call |-> "GetOwnedGames", gave |-> HTTP_BAD_REQUEST]
        /\ outcome = "InvalidIDError" =>
               /\ pc = "raised"
               /\ result = NoResult
               /\ loaded_log = <<>>
               /\ Tasks = {}
               /\ ~RemoteCallIssued
               /\ cache_commits = <<>>

\* C11 witness: the name was unresolvable and the owned-games request, made all the
\* same, ended the batch with InvalidIDError
C11_Witness ==
    /\ Unresolvable
    /\ Len(requests) = 2
    /\ outcome = "InvalidIDError"
    /\ callbacks.loaded

\* the place of a key in the enumeration order of RATING_DICT
KeyIndex(key) == CHOOSE j \in DOMAIN RATING_DICT : RATING_DICT[j][1] = key

\* the ranks of the ratings the tasks produced, in input order
ProducedRanks == [t \in DOMAIN produced |-> Rank(produced[t])]

\* C12: in SpecAvg, whose batches end with every combination of one to MaxAvgGames
\* ratings, every batch returns a result (a key of the wanted rank exists), and
\* the rank r of its user_average is an integer nearest to the mean of the entries'
\* ranks, the even one when the mean lies halfway between two integers; the
\* user_average is the first key of RATING_DICT, in enumeration order, of rank r.
\* Ranks 2 and 4 give rank 3, ranks 2 and 3 give rank 2.
C12_Aggregate ==
    pc # "finalizing" =>
        /\ outcome = "LibraryResult"
        /\ result.user_average \in RatingKeys
        /\ LET n == Len(result.game_ratings)
               total == Sum([i \in 1..n |-> Rank(result.game_ratings[i].rating)])
               r == Rank(result.user_average)
           IN  /\ n = Len(games)
               /\ 2 * (n * r - total) <= n
               /\ 2 * (total - n * r) <= n
               /\ (2 * (n * r - total) = n \/ 2 * (total - n * r) = n) => r % 2 = 0
               /\ \A j \in DOMAIN RATING_DICT :
                      RATING_DICT[j][2] = r => KeyIndex(result.user_average) <= j
               /\ ProducedRanks = <<2, 4>> => r = 3
               /\ ProducedRanks = <<2, 3>> => r = 2

\* C12 witness: a result for ranks 2 and 3, whose mean lies halfway, and it is 'bronze'
C12_Witness ==
    /\ pc = "returned"
    /\ produced = <<"bronze", "silver">>
    /\ result.user_average = "bronze"

\* the payload handed to _parse_steam_user_games carries a games list, and it is empty
EmptyGamesList == data # <<>> /\ data[1].has_games /\ data[1].games = <<>>

\* C13: a batch whose games list is present and empty ends with a failure the
\* aggregate step reports for the empty list, not with the ZeroDivisionError of a
\* division by the list's length, and it returns no result.
C13_EmptyListFailsExplicitly ==
    (EmptyGamesList /\ Terminated) =>
        /\ outcome # "LibraryResult"
        /\ outcome # "ZeroDivisionError"
        /\ result = NoResult

\* the place of task t's game in a list sorted by playtime descending in which
\* games of equal playtime stand in their input order
SnapshotPlace(t) ==
    1 + Cardinality({u \in DOMAIN games :
            \/ games[u].playtime_forever > games[t].playtime_forever
            \/ games[u].playtime_forever = games[t].playtime_forever /\ u < t})

SoftFailed ==
    /\ ac_data # <<>>
    /\ ac_data[1].status # "none"
    /\ ac_data[1].status # HTTP_SUCCESS \/ ~ac_data[1].parsable

\* C15 as stated: when the anti-cheat cache is not fresh and the request is
\* answered with a non-success status or an unparsable payload,
\* get_anti_cheat_data returns the cache object, makes no commit to the cache and
\* raises nothing.
C15_SoftFailureReturnsCache ==
    SoftFailed =>
        /\ ac_pc = "returned"
        /\ ac_result = "cache"
        /\ ac_commits = <<>>

\* C15 as amended: when the anti-cheat cache is not fresh and the request is
\* answered with a non-success status or an unparsable payload,
\* get_anti_cheat_data returns None, not the cache object; it makes no commit to
\* the cache and raises nothing.
C15_SoftFailureReturnsNone ==
    SoftFailed =>
        /\ ~ac_cache.has_anticheat_cache
        /\ ac_pc = "returned"
        /\ ac_result = "None"
        /\ ac_commits = <<>>

\* C15 witness: a non-success status came with a list of records that a success
\* status would have had committed
C15_Witness ==
    /\ SoftFailed
    /\ ac_data[1].status = HTTP_SERVER_ERROR
    /\ ac_data[1].parsable
    /\ ac_data[1].records # <<>>
    /\ Deserialize(ac_data[1].records).raised = "none"
    /\ ac_cache.anticheat # <<>>

\* C16: no list handed to cache.update_cache holds a game whose identifier the
\* cache loaded at the start of the batch already held; the list holds the other
\* games of the final list, all of them.
C16_CommitExcludesCached ==
    \A k \in DOMAIN cache_commits :
        /\ \A i \in DOMAIN cache_commits[k] :
               cache_commits[k][i].app_id \notin DOMAIN cache.games
        /\ \A t \in DOMAIN games :
               AppId(t) \notin DOMAIN cache.games =>
                   \E i \in DOMAIN cache_commits[k] : cache_commits[k][i].app_id = AppId(t)

\* the payload handed to _parse_steam_user_games carries a games list
HasGamesList == data # <<>> /\ data[1].has_games

\* how far the batch is: collecting input (0), snapshot emitted (1), resolving (2),
\* finalizing (3), done (4); ended with an error (5)
PhaseRank ==
    CASE pc \in {"start", "vanity_wait", "owned_wait"} -> 0
      [] pc = "snapshot_cb" -> 1
      [] pc \in {"resolving", "update_cb"} -> 2
      [] pc = "finalizing" -> 3
      [] pc = "returned" -> 4
      [] pc = "raised" -> 5

\* C17: the batch never moves backward through collecting input, snapshot emitted,
\* resolving, finalizing, done, and done and an error are final; with every possible
\* step eventually taken (requests answered, callbacks returning, tasks scheduled),
\* every batch whose payload has a games list reaches done; a batch that ends with
\* an error does so before the snapshot is built, so its payload had no games list.
C17_ForwardToDone ==
    /\ [][PhaseRank' >= PhaseRank]_vars
    /\ [][PhaseRank >= 4 => PhaseRank' = PhaseRank]_vars
    /\ [](HasGamesList => <>(pc = "returned"))
    /\ [](pc = "raised" => ~HasGamesList)

\* the identifiers of the games of a sequence of Games
AppIds(gs) == [i \in DOMAIN gs |-> gs[i].app_id]

\* the games whose tasks have finished, in the order in which they finished: those
\* the loop has taken, then those waiting in the queue of as_completed
DoneOrder == AppIds(updated_log) \o [i \in DOMAIN completed |-> completed[i].game.app_id]

IsPrefix(s, t) == Len(s) <= Len(t) /\ \A i \in DOMAIN s : s[i] = t[i]

C18_Delivered ==
    /\ ~callbacks.updated => updated_log = <<>>
    /\ callbacks.updated =>
           /\ \A i, j \in DOMAIN updated_log :
                  i # j => updated_log[i].app_id # updated_log[j].app_id
           /\ \A i \in DOMAIN updated_log :
                  \E t \in Tasks : /\ tpc[t] = "done"
                                   /\ updated_log[i].app_id = AppId(t)
                                   /\ updated_log[i].rating = produced[t]
           /\ pc \in {"finalizing", "returned"} =>
                  /\ Len(updated_log) = Len(games)
                  /\ \A t \in Tasks : \E i \in DOMAIN updated_log :
                         updated_log[i].app_id = AppId(t)
           /\ outcome = "LibraryResult" =>
                  \A i \in DOMAIN updated_log :
                      \E k \in DOMAIN result.game_ratings :
                          result.game_ratings[k] = updated_log[i]

\* C18: when on_game_updated is given, it is called once for each input game and
\* no more (every game has had its call when the loop has ended), with the Game
\* the game's task returned; the calls are made in the order in which the tasks
\* finished (the sequence of finished games, delivered ones first, only ever grows
\* at its end); and the rating each call delivered is the rating the game's entry
\* has in the returned list.
C18_UpdatesInCompletionOrder ==
    /\ []C18_Delivered
    /\ [][callbacks.updated => IsPrefix(DoneOrder, DoneOrder')]_vars

\* C18 witness: a returned result of two games whose tasks finished in the reverse
\* of the input order with different ratings, both delivered to on_game_updated
C18_Witness ==
    /\ outcome = "LibraryResult"
    /\ callbacks.updated
    /\ Len(games) = 2
    /\ AppIds(updated_log) = <<AppId(2), AppId(1)>>
    /\ updated_log[1].rating # updated_log[2].rating
    /\ games[1].playtime_forever = games[2].playtime_forever

\* the fresh cache holds the game of task t
CacheHit(t) == cache.has_game_cache /\ AppId(t) \in DOMAIN cache.games

\* a native-check response on which check_game_is_native returns False
NativeSaysFalse(resp) ==
    /\ resp # TransportError
    /\ \/ resp.status # HTTP_SUCCESS
       \/ resp.body \in {"missing_appid", "unsuccessful", "not_linux"}

C19_Calls ==
    /\ Len(tpc) \in {0, Len(games)}
    /\ \A t \in Tasks :
           /\ native_calls[t] <= 1
           /\ tier_calls[t] <= 1
           /\ native_calls[t] = 1 => ~CacheHit(t)
           /\ tier_calls[t] = 1 => native_calls[t] = 1 /\ ~CacheHit(t)
           /\ (tpc[t] = "done" /\ ~CacheHit(t)) => native_calls[t] = 1

C19_Steps ==
    /\ \A t \in Tasks :
           tpc[t] = "done" =>
               /\ tpc'[t] = "done"
               /\ produced'[t] = produced[t]
               /\ native_calls'[t] = native_calls[t]
               /\ tier_calls'[t] = tier_calls[t]
    /\ \A t \in Tasks : \A resp \in NativeResponses :
           NativeResponse(t, resp) =>
               /\ (resp.status = HTTP_SUCCESS /\ resp.body = "linux") =>
                      /\ tpc'[t] = "done"
                      /\ produced'[t] = "native"
                      /\ tier_calls'[t] = 0
               /\ tier_calls'[t] # tier_calls[t] => NativeSaysFalse(resp)
               /\ NativeSaysFalse(resp) => tier_calls'[t] = 1 /\ tpc'[t] = "tier"
    /\ \A t \in Tasks : \A resp \in TierResponses :
           TierResponse(t, resp) =>
               /\ tpc'[t] = "done"
               /\ (resp # TransportError /\ resp.status # HTTP_SUCCESS) =>
                      produced'[t] = "pending"
               /\ (resp.status = HTTP_SUCCESS /\ resp.body = "no_tier") =>
                      produced'[t] = "pending"
               /\ (resp.status = HTTP_SUCCESS /\ resp.body \in RemoteTiers) =>
                      produced'[t] = resp.body

\* C19: a batch has one task per game, and a task that has ended does nothing more
\* (no retry); per game at most one native-check request and at most one
\* tier-lookup request are issued, neither for a game the fresh cache holds, and
\* the tier-lookup only when the native-check has answered and
\* check_game_is_native returned False; a native-check that returns True ends the
\* task with 'native' and without tier-lookup; a tier-lookup answered with a
\* non-success status, or with a payload that has no tier field, ends the task with
\* 'pending', one answered with a tier ends it with that tier.
C19_OneResolution ==
    /\ []C19_Calls
    /\ [][C19_Steps]_vars

\* C19 witness: a returned result in which one game is 'native' after one
\* native-check and no tier-lookup, and another is 'pending' after a tier-lookup
\* that raised nothing
C19_Witness ==
    /\ outcome = "LibraryResult"
    /\ \E t \in Tasks : /\ produced[t] = "native"
                        /\ native_calls[t] = 1
                        /\ tier_calls[t] = 0
    /\ \E u \in Tasks : /\ produced[u] = "pending"
                        /\ ~failed[u]
                        /\ tier_calls[u] = 1

\* the index of the game of identifier a in a list of Games
IndexOf(gs, a) == CHOOSE i \in DOMAIN gs : gs[i].app_id = a

\* two games of the batch have the same playtime
SharedPlaytime ==
    \E t, u \in DOMAIN games :
        t # u /\ games[t].playtime_forever = games[u].playtime_forever

\* C20: in a batch that was given on_games_loaded and has returned, any two games
\* of equal playtime stand in the returned list in the reverse of the order they
\* had in the list on_games_loaded was called with, where they stood in input
\* order; the two lists hold the games in the same order exactly when no two
\* games of the batch have the same playtime.
C20_TiesReversed ==
    (outcome = "LibraryResult" /\ loaded_log # <<>>) =>
        LET snapshot == loaded_log[1]
            final == result.game_ratings
        IN  /\ Len(snapshot) = Len(final)
            /\ \A i, j \in DOMAIN snapshot :
                   (i < j /\ snapshot[i].playtime = snapshot[j].playtime) =>
                       /\ IndexOf(final, snapshot[i].app_id) > IndexOf(final, snapshot[j].app_id)
                       /\ \E t, u \in DOMAIN games :
                              /\ t < u
                              /\ AppId(t) = snapshot[i].app_id
                              /\ AppId(u) = snapshot[j].app_id
            /\ AppIds(final) = AppIds(snapshot) <=> ~SharedPlaytime

\* C20 witness: a returned result of two games of equal playtime; the first game of
\* the input stood first in the list given to on_games_loaded and stands last in
\* the returned list
C20_Witness ==
    /\ outcome = "LibraryResult"
    /\ Len(loaded_log) = 1
    /\ Len(games) = 2
    /\ SharedPlaytime
    /\ loaded_log[1][1].app_id = AppId(1)
    /\ result.game_ratings[2].app_id = AppId(1)

====
